---- MODULE Spec2Model ----
(***************************************************************************)
(* Model of the policy-decision core of unified-trust-console-poc:         *)
(*   - RulesService (utc/services/rules.py): rule lookup, set_rule,        *)
(*     toggle_rule, evaluate_rules_for_action, POLICY_CHANGE receipts;     *)
(*   - the Rule model helpers (utc/models/rule.py);                        *)
(*   - the session / transaction boundary (utc/database/session.py);       *)
(*   - QueueingService (utc/services/queueing.py): EWMA features, rho and  *)
(*     the protection level (utc/models/feature.py).                       *)
(*                                                                         *)
(* The database is one committed store (rules, receipts, features) plus,   *)
(* per ORM session, the identity map of loaded Rule objects and the        *)
(* flushed-but-uncommitted writes of the session's transaction.  A write   *)
(* takes the database write lock until the transaction ends.               *)
(***************************************************************************)
EXTENDS Integers, Sequences, FiniteSets, TLC

VARIABLES
    rules,      \* committed rules table: key -> row
    receipts,   \* committed receipts table, in insertion order
    calls,      \* per key: committed state-changing set_rule / toggle_rule calls made with create_receipt at its default
    features,   \* committed features table: unit -> row
    n_obs,      \* per unit: observations applied so far (bounds the exploration)
    sess,       \* per session: position in the running call, identity map, pending writes
    lock,       \* the session holding the database write lock (NoSession when free)
    now,        \* the database clock (func.now()), advanced by every write
    last,       \* the Decision just returned by evaluate_rules_for_action (none once the next call begins)
    qsess,      \* per session: the running QueueingService call, loaded Feature objects, pending feature writes
    applied,    \* per unit: the observations of the committed update_feature calls, in commit order
    dups,       \* per unit: further committed Feature rows of the unit (features[unit] is the first one)
    config,     \* the thresholds the QueueingService was constructed with
    shared,     \* the QueueingService instance get_queueing_service hands out: its .db, its users
    engine,     \* the SigningService in use: its secret and algorithm
    clock,      \* the wall clock sign_receipt and verify_receipt read, in hours
    signed,     \* the last sign_receipt call: the caller's map before and after, the token returned
    wire,       \* the token as it reaches the verifier, possibly with one character changed
    verified,   \* the outcome of the last verify_receipt call
    sample      \* the outcome of seed_sample_data: what it left committed

\* the variables of the QueueingService calls made through a session
qvars == <<qsess, applied, dups, config, shared>>

\* the variables of the SigningService calls
svars == <<engine, clock, signed, wire, verified>>

vars == <<rules, receipts, calls, features, n_obs, sess, lock, now, last, qvars, svars, sample>>

-----------------------------------------------------------------------------
(* Bounds of the model *)

\* total number of row writes (INSERT / UPDATE of a rule) explored
MaxClock == 2

\* observations applied to one unit
MaxObs == 1

\* update_feature calls made for one unit through sessions
MaxCalls == 2

\* hours the wall clock advances
MaxTime == 2

-----------------------------------------------------------------------------
(* Program constants: utc/core/constants.py *)

ALLOW == "ALLOW"
DENY == "DENY"
REQUIRE_APPROVAL == "REQUIRE_APPROVAL"
POLICY_CHANGE == "POLICY_CHANGE"

WRITES_REQUIRE_APPROVAL == "writes_require_approval"
READ_ONLY_FOR_RISKY == "read_only_for_risky"
RuleKey == {WRITES_REQUIRE_APPROVAL, READ_ONLY_FOR_RISKY}

ACTION_PREFIX_READ == "read:"
ACTION_PREFIX_WRITE == "write:"

-----------------------------------------------------------------------------
(* Inputs *)

Sessions == {"s1", "s2"}
NoSession == "none"
\* the session of the request being served when requests do not overlap
Serial == "s1"

\* an action string is prefix + path; "delete:" is a prefix the engine does not know
Prefixes == {ACTION_PREFIX_READ, ACTION_PREFIX_WRITE, "delete:"}
Paths == {"/payments"}
ActionStrings == [prefix : Prefixes, path : Paths]

\* the unit an action is about: route:<path> (init_db.py sample data)
Units == {"route:/payments"}
UnitOf(action) == "route:" \o action.path

\* changed_by: its default "system" and another actor
DefaultActor == "system"
Actors == {DefaultActor, "admin"}

\* observed (arrival_rate, service_rate) pairs fed to update_feature
Observations == {<<2, 10>>, <<20, 10>>, <<100, 1>>, <<20, -30>>}

-----------------------------------------------------------------------------
(* Exact arithmetic on the float columns: a number is <<numerator, denominator>> *)

RECURSIVE GCD(_, _)
GCD(a, b) == IF b = 0 THEN a ELSE GCD(b, a % b)

Abs(x) == IF x < 0 THEN -x ELSE x

Norm(r) ==
    LET g == GCD(Abs(r[1]), r[2])
    IN  IF g = 0 THEN r ELSE <<r[1] \div g, r[2] \div g>>

RatAdd(a, b) == Norm(<<a[1] * b[2] + b[1] * a[2], a[2] * b[2]>>)
RatMul(a, b) == Norm(<<a[1] * b[1], a[2] * b[2]>>)
\* a / b for b > 0
RatDiv(a, b) == Norm(<<a[1] * b[2], a[2] * b[1]>>)
RatLess(a, b) == a[1] * b[2] < b[1] * a[2]
RatLeq(a, b) == a[1] * b[2] <= b[1] * a[2]
RatMin(a, b) == IF RatLeq(a, b) THEN a ELSE b
Int2Rat(i) == <<i, 1>>

-----------------------------------------------------------------------------
(* QueueingService and Feature: utc/services/queueing.py, utc/models/feature.py *)

\* settings.queue_alpha = 0.3
queue_alpha == <<3, 10>>
\* the cap of _calculate_rho
RhoCap == <<99, 100>>
\* the thresholds Feature.get_protection_level compares rho with
FeatureLow == <<6, 10>>
FeatureHigh == <<9, 10>>
\* get_or_create_feature's default initial estimates
initial_lambda == <<1, 1>>
initial_mu == <<10, 1>>

NoFeature == [exists |-> FALSE, lambda_est |-> <<0, 1>>, mu_est |-> <<0, 1>>, rho |-> <<0, 1>>]

\* a variant without the cap
calculate_rho_uncapped(lambda_est, mu_est) ==
    IF mu_est[1] <= 0
    THEN [ok |-> FALSE, rho |-> <<0, 1>>]
    ELSE [ok |-> TRUE, rho |-> RatDiv(lambda_est, mu_est)]

\* _calculate_rho: ValueError when mu_est <= 0, else min(lambda/mu, 0.99)
calculate_rho(lambda_est, mu_est) ==
    IF mu_est[1] <= 0
    THEN [ok |-> FALSE, rho |-> <<0, 1>>]
    ELSE [ok |-> TRUE, rho |-> RatMin(RatDiv(lambda_est, mu_est), RhoCap)]

\* Feature.is_overloaded / needs_approval_mode / get_protection_level
is_overloaded(f) == RatLeq(FeatureHigh, f.rho)
needs_approval_mode(f) == RatLeq(FeatureLow, f.rho) /\ RatLess(f.rho, FeatureHigh)
feature_protection_level(f) ==
    IF is_overloaded(f) THEN "read_only"
    ELSE IF needs_approval_mode(f) THEN "require_approval"
    ELSE "permissive"

\* get_or_create_feature(unit) on a features table fs: the row it returns
get_or_create_feature(fs, unit) ==
    IF fs[unit].exists
    THEN fs[unit]
    ELSE [exists |-> TRUE, lambda_est |-> initial_lambda, mu_est |-> initial_mu,
          rho |-> calculate_rho(initial_lambda, initial_mu).rho]

\* QueueingService.get_protection_level(unit): the level of the (lazily created) feature
get_protection_level(fs, unit) == feature_protection_level(get_or_create_feature(fs, unit))

\* a variant with the two weights exchanged
ewma_swapped(observed, old) ==
    RatAdd(RatMul(RatAdd(<<1, 1>>, <<-queue_alpha[1], queue_alpha[2]>>), Int2Rat(observed)),
           RatMul(queue_alpha, old))

\* the EWMA step of update_feature
ewma(observed, old) ==
    RatAdd(RatMul(queue_alpha, Int2Rat(observed)),
           RatMul(RatAdd(<<1, 1>>, <<-queue_alpha[1], queue_alpha[2]>>), old))

-----------------------------------------------------------------------------
(* Rows, sessions and the ORM view of the rules table *)

NoRule == [exists |-> FALSE, value |-> 0, updated_at |-> 0]
NotLoaded == [loaded |-> FALSE, value |-> 0]
NoWrite == [dirty |-> FALSE, value |-> 0, updated_at |-> 0]

\* a session between calls with no transaction state: SessionLocal()
IdleSession ==
    [pc |-> "idle",
     op |-> "none",                               \* the latest call of the transaction
     error |-> "none",                            \* the exception that ended the latest transaction
     rule_key |-> WRITES_REQUIRE_APPROVAL, enabled |-> FALSE, old_state |-> FALSE,
     create_receipt |-> TRUE, changed_by |-> "system",
     pre |-> FALSE,                               \* the row's value in the database when the call began
     cache |-> [k \in RuleKey |-> NotLoaded],      \* identity map: the loaded Rule objects
     writes |-> [k \in RuleKey |-> NoWrite],       \* flushed, uncommitted UPDATEs
     new_receipts |-> <<>>,                        \* flushed, uncommitted INSERTs
     new_calls |-> [k \in RuleKey |-> 0]]          \* state-changing default calls of this transaction

\* the call returns to its caller
Returned(r) == [r EXCEPT !.pc = "idle"]

\* what a SELECT on the session's connection returns: own uncommitted writes, else the committed row
db_row(s, key) ==
    IF sess[s].writes[key].dirty
    THEN [exists |-> TRUE, value |-> sess[s].writes[key].value,
          updated_at |-> sess[s].writes[key].updated_at]
    ELSE rules[key]

\* get_rule_by_key / RulesService.get_rule: an object already in the identity map keeps its
\* loaded attributes, otherwise the row is read from the database
get_rule(s, key) ==
    IF sess[s].cache[key].loaded
    THEN [exists |-> TRUE, value |-> sess[s].cache[key].value,
          updated_at |-> db_row(s, key).updated_at]
    ELSE db_row(s, key)

\* Rule.is_enabled
is_enabled(rule) == rule.value = 1

\* RulesService.is_rule_enabled: False when the rule does not exist
is_rule_enabled(s, key) ==
    LET rule == get_rule(s, key)
    IN  IF rule.exists THEN is_enabled(rule) ELSE FALSE

\* the identity map after get_rule(s, key)
loaded(cache, s, key) ==
    IF cache[key].loaded \/ ~db_row(s, key).exists
    THEN cache
    ELSE [cache EXCEPT ![key] = [loaded |-> TRUE, value |-> db_row(s, key).value]]

\* action.startswith("write:")
is_write(action) == action.prefix = ACTION_PREFIX_WRITE

\* a variant that tests writes_require_approval before read_only_for_risky
evaluate_approval_first(s, action) ==
    IF is_write(action) /\ is_rule_enabled(s, WRITES_REQUIRE_APPROVAL)
    THEN [decision |-> REQUIRE_APPROVAL, rules |-> <<WRITES_REQUIRE_APPROVAL>>,
          reason |-> "Approval required for writes"]
    ELSE IF is_write(action) /\ is_rule_enabled(s, READ_ONLY_FOR_RISKY)
    THEN [decision |-> DENY, rules |-> <<READ_ONLY_FOR_RISKY>>,
          reason |-> "Read-only mode active for risky units"]
    ELSE [decision |-> ALLOW, rules |-> <<>>,
          reason |-> "No restrictive policies active"]

\* a variant that applies the rules to every action, whatever its prefix
evaluate_ignoring_prefix(s, action) ==
    IF is_rule_enabled(s, READ_ONLY_FOR_RISKY)
    THEN [decision |-> DENY, rules |-> <<READ_ONLY_FOR_RISKY>>,
          reason |-> "Read-only mode active for risky units"]
    ELSE IF is_rule_enabled(s, WRITES_REQUIRE_APPROVAL)
    THEN [decision |-> REQUIRE_APPROVAL, rules |-> <<WRITES_REQUIRE_APPROVAL>>,
          reason |-> "Approval required for writes"]
    ELSE [decision |-> ALLOW, rules |-> <<>>,
          reason |-> "No restrictive policies active"]

\* RulesService.evaluate_rules_for_action
evaluate_rules_for_action(s, action) ==
    IF is_write(action) /\ is_rule_enabled(s, READ_ONLY_FOR_RISKY)
    THEN [decision |-> DENY, rules |-> <<READ_ONLY_FOR_RISKY>>,
          reason |-> "Read-only mode active for risky units"]
    ELSE IF is_write(action) /\ is_rule_enabled(s, WRITES_REQUIRE_APPROVAL)
    THEN [decision |-> REQUIRE_APPROVAL, rules |-> <<WRITES_REQUIRE_APPROVAL>>,
          reason |-> "Approval required for writes"]
    ELSE [decision |-> ALLOW, rules |-> <<>>,
          reason |-> "No restrictive policies active"]

\* the identity map after evaluate_rules_for_action: the rules it looked up
evaluate_loaded(s, action) ==
    IF ~is_write(action) THEN sess[s].cache
    ELSE IF is_rule_enabled(s, READ_ONLY_FOR_RISKY)
    THEN loaded(sess[s].cache, s, READ_ONLY_FOR_RISKY)
    ELSE loaded(loaded(sess[s].cache, s, READ_ONLY_FOR_RISKY), s, WRITES_REQUIRE_APPROVAL)

\* a variant that records the two states the wrong way round
create_receipt_states_swapped(rule_key, old_state, new_state, changed_by) ==
    [subject |-> changed_by,
     action |-> <<"policy_change:", rule_key>>,
     decision |-> POLICY_CHANGE,
     rules |-> <<rule_key>>,
     reason |-> [text |-> "Policy changed", rule_key |-> rule_key,
                 enabled |-> new_state, was |-> old_state],
     meta |-> [rule_key |-> rule_key, old_state |-> new_state,
               new_state |-> old_state, changed_by |-> changed_by],
     signature |-> "NULL"]

\* a variant that records every change as one made from the disabled state
create_receipt_from_disabled(rule_key, old_state, new_state, changed_by) ==
    [subject |-> changed_by,
     action |-> <<"policy_change:", rule_key>>,
     decision |-> POLICY_CHANGE,
     rules |-> <<rule_key>>,
     reason |-> [text |-> "Policy changed", rule_key |-> rule_key,
                 enabled |-> new_state, was |-> FALSE],
     meta |-> [rule_key |-> rule_key, old_state |-> FALSE,
               new_state |-> new_state, changed_by |-> changed_by],
     signature |-> "NULL"]

\* RulesService._create_policy_change_receipt: the Receipt it builds (signature is never set)
create_policy_change_receipt(rule_key, old_state, new_state, changed_by) ==
    [subject |-> changed_by,
     action |-> <<"policy_change:", rule_key>>,
     decision |-> POLICY_CHANGE,
     rules |-> <<rule_key>>,
     reason |-> [text |-> "Policy changed", rule_key |-> rule_key,
                 enabled |-> new_state, was |-> old_state],
     meta |-> [rule_key |-> rule_key, old_state |-> old_state,
               new_state |-> new_state, changed_by |-> changed_by],
     signature |-> "NULL"]

NoDecision ==
    [valid |-> FALSE, action |-> [prefix |-> ACTION_PREFIX_READ, path |-> "/payments"],
     level |-> "permissive", ro |-> "missing", wra |-> "missing",
     decision |-> ALLOW, rules |-> <<>>, reason |-> ""]

\* the state of a rule as the session sees it
rule_state(s, key) ==
    IF ~get_rule(s, key).exists THEN "missing"
    ELSE IF is_enabled(get_rule(s, key)) THEN "on" ELSE "off"

-----------------------------------------------------------------------------
(* QueueingService over a session: configuration, loaded Feature objects, pending writes *)

\* settings.queue_threshold_low / queue_threshold_high
queue_threshold_low == <<6, 10>>
queue_threshold_high == <<9, 10>>
\* the bound should_auto_relax compares rho with
RelaxThreshold == <<5, 10>>

\* (threshold_low, threshold_high) pairs a QueueingService is constructed with
ThresholdPairs ==
    {<<queue_threshold_low, queue_threshold_high>>,
     <<(<<3, 10>>), (<<5, 10>>)>>,
     <<(<<9, 10>>), (<<6, 10>>)>>}

\* __init__ line 82: 0 < low < high < 1
thresholds_accepted(low, high) ==
    /\ RatLess(<<0, 1>>, low)
    /\ RatLess(low, high)
    /\ RatLess(high, <<1, 1>>)

DefaultConfig == [threshold_low |-> queue_threshold_low, threshold_high |-> queue_threshold_high]

\* observed (arrival_rate, service_rate) pairs of the update_feature calls made through a session
QueueObservations == {<<10, 10>>, <<1, 20>>, <<20, 10>>, <<2, 0>>, <<20, -30>>}

\* the observations of requests served one after the other: a negative arrival rate too
SerialObservations == QueueObservations \cup {<<-10, 10>>}

\* the module-level _queueing_service: none yet.  db is the session its .db names,
\* holders the requests that hold a reference to it, ran the (request, session) pairs
\* of the calls made through it
NoSharedService == [db |-> NoSession, holders |-> {}, ran |-> {}]

\* observations of the requests that use the shared service
SharedObservations == {<<10, 10>>, <<20, 10>>, <<1, 20>>}

FeatureColumns == {"lambda_est", "mu_est", "rho"}

NoFeatureWrite == [kind |-> "none", cols |-> {}, row |-> NoFeature]

\* what the last call of a session returned
NoReturn ==
    [kind |-> "none", unit |-> "", level |-> "", relax |-> FALSE, feature |-> NoFeature,
     old |-> NoFeature, threshold_low |-> <<0, 1>>, threshold_high |-> <<0, 1>>]

IdleQSession ==
    [pc |-> "idle", op |-> "none", error |-> "none", unit |-> "", obs |-> <<0, 0>>,
     cache |-> [u \in Units |-> NoFeature],
     writes |-> [u \in Units |-> NoFeatureWrite],
     newdups |-> [u \in Units |-> <<>>],
     pending |-> [u \in Units |-> <<>>],
     ret |-> NoReturn]

\* get_feature(unit) in session s: the identity-mapped object if loaded, else the first stored row
get_feature(s, unit) ==
    IF qsess[s].cache[unit].exists THEN qsess[s].cache[unit] ELSE features[unit]

-----------------------------------------------------------------------------
(* SigningService: utc/services/signer.py, over the compact HS256 tokens of PyJWT.    *)
(* A token is three base64url segments joined by two dots.  A segment is kept as the  *)
(* bytes it decodes to (content), the unused low bits of its last character (pad:     *)
(* the decoder ignores them) and whether all its characters are of the alphabet.      *)

\* settings.hmac_secret, and secrets a caller supplies: of 0, 5, 31 and 32 characters
hmac_secret == "change-me-in-production-use-openssl-rand-hex-32"
Secrets ==
    {"", "short", "0123456789abcdef0123456789abcde", "0123456789abcdef0123456789abcdef"}

\* settings.jwt_algorithm / the default of SigningService.__init__
jwt_algorithm == "HS256"

\* the secret argument of SigningService(secret): None, or a string
None == [given |-> FALSE, text |-> ""]
SecretArgs == {None} \cup [given : {TRUE}, text : Secrets]

\* SigningService.__init__ lines 55-64: `secret or settings.hmac_secret`, then the
\* length check; arg keeps what the caller passed
signing_service(arg, algorithm) ==
    LET secret == IF arg.given /\ arg.text # "" THEN arg.text ELSE hmac_secret
    IN  [secret |-> secret, algorithm |-> algorithm, arg |-> arg,
         error |-> IF Len(secret) < 32 THEN "ValueError" ELSE "none"]

Engines == {signing_service(arg, jwt_algorithm) : arg \in SecretArgs}

\* get_signer(): SigningService()
DefaultEngine == signing_service(None, jwt_algorithm)

\* Python values of a claim map
PyStr(s) == [t |-> "str", v |-> <<s>>, n |-> 0]
PyList(seq) == [t |-> "list", v |-> seq, n |-> 0]
PyInt(i) == [t |-> "int", v |-> <<>>, n |-> i]
PyDateTime(i) == [t |-> "datetime", v |-> <<>>, n |-> i]

EmptyMap == [k \in {} |-> PyInt(0)]

\* the receipt of the module's own test (lines 357-364), for two decisions
ReceiptData(decision) ==
    [k \in {"id", "subject", "action", "decision", "rules", "reason"} |->
        CASE k = "id" -> PyStr("550e8400")
          [] k = "subject" -> PyStr("agent-42")
          [] k = "action" -> PyStr("write:/payments")
          [] k = "decision" -> PyStr(decision)
          [] k = "rules" -> PyList(<<WRITES_REQUIRE_APPROVAL>>)
          [] OTHER -> PyStr("Test receipt")]

\* claim maps handed to sign_receipt: the receipt, alone or with an audience claim
ClaimMaps ==
    {ReceiptData(d) : d \in {ALLOW, DENY}}
        \cup {("aud" :> PyStr("console")) @@ ReceiptData(ALLOW), EmptyMap}

\* expiry_hours arguments: 0 stands for None
ExpiryHours == {0, 1}

\* the characters of a segment are all of the base64url alphabet, no unused bit is set
Segment(content) == [content |-> content, pad |-> 0, clean |-> TRUE]

\* what the MAC is computed over: the text of the header and payload segments
SigningInput(header, payload) ==
    [header |-> [content |-> header.content, pad |-> header.pad],
     payload |-> [content |-> payload.content, pad |-> payload.pad]]

\* HMAC of the signing input under a key; flip = 1 marks bytes that are no MAC
HMAC(key, algorithm, signing_input) ==
    [key |-> key, algorithm |-> algorithm, input |-> signing_input, flip |-> 0]

\* the empty string: no separator, three empty segments
NoToken ==
    [dots |-> 0,
     header |-> Segment([alg |-> "", typ |-> "", json_ok |-> FALSE]),
     payload |-> Segment([claims |-> EmptyMap, json_ok |-> FALSE]),
     signature |-> Segment([key |-> "", algorithm |-> "",
                            input |-> [header |-> [content |-> [alg |-> "", typ |-> "",
                                                                json_ok |-> FALSE],
                                                   pad |-> 0],
                                       payload |-> [content |-> [claims |-> EmptyMap,
                                                                 json_ok |-> FALSE],
                                                    pad |-> 0]],
                            flip |-> 1])]

\* jwt.encode: datetimes of exp / iat / nbf become integer timestamps, the payload and
\* the header are serialised, the MAC is taken over the two segments
jwt_encode(payload, key, algorithm) ==
    LET json == [k \in DOMAIN payload |->
                    IF k \in {"exp", "iat", "nbf"} /\ payload[k].t = "datetime"
                    THEN PyInt(payload[k].n) ELSE payload[k]]
        serialisable == \A k \in DOMAIN json : json[k].t \in {"str", "list", "int"}
        header == Segment([alg |-> algorithm, typ |-> "JWT", json_ok |-> TRUE])
        body == Segment([claims |-> json, json_ok |-> TRUE])
    IN  IF ~serialisable
        THEN [error |-> "TypeError", token |-> NoToken]
        ELSE [error |-> "none",
              token |-> [dots |-> 2, header |-> header, payload |-> body,
                         signature |-> Segment(HMAC(key, algorithm,
                                                    SigningInput(header, body)))]]

\* sign_receipt lines 100-116: copy, stamp iat, stamp exp when expiry_hours is truthy
sign_receipt(e, receipt_data, expiry_hours, t) ==
    LET stamps == IF expiry_hours # 0 THEN {"iat", "exp"} ELSE {"iat"}
        payload == [k \in DOMAIN receipt_data \cup stamps |->
                       IF k = "iat" THEN PyDateTime(t)
                       ELSE IF k = "exp" /\ expiry_hours # 0 THEN PyDateTime(t + expiry_hours)
                       ELSE receipt_data[k]]
    IN  jwt_encode(payload, e.secret, e.algorithm)

\* jwt.decode with options {"verify_exp": verify_exp} and no audience, in the order
\* PyJWT works: split, decode the three segments, parse the header, check the
\* algorithm, check the MAC, parse the payload, validate exp / iat / nbf / aud
jwt_decode(token, key, algorithms, verify_exp, t) ==
    LET failed(e) == [outcome |-> e, claims |-> EmptyMap]
        claims == token.payload.content.claims
    IN  IF token.dots # 2 THEN failed("DecodeError")
        ELSE IF ~token.header.clean \/ ~token.header.content.json_ok THEN failed("DecodeError")
        ELSE IF ~token.payload.clean \/ ~token.signature.clean THEN failed("DecodeError")
        ELSE IF token.header.content.alg \notin algorithms THEN failed("InvalidAlgorithmError")
        ELSE IF token.signature.content
                  # HMAC(key, token.header.content.alg,
                         SigningInput(token.header, token.payload))
             THEN failed("InvalidSignatureError")
        ELSE IF ~token.payload.content.json_ok THEN failed("DecodeError")
        ELSE IF verify_exp /\ "exp" \in DOMAIN claims /\ claims["exp"].n <= t
             THEN failed("ExpiredSignatureError")
        ELSE IF "iat" \in DOMAIN claims /\ claims["iat"].n > t
             THEN failed("ImmatureSignatureError")
        ELSE IF "nbf" \in DOMAIN claims /\ claims["nbf"].n > t
             THEN failed("ImmatureSignatureError")
        ELSE IF "aud" \in DOMAIN claims THEN failed("InvalidAudienceError")
        ELSE [outcome |-> "ok", claims |-> claims]

\* verify_receipt lines 152-173: the three caught errors are raised again as
\* themselves, any other error of jwt.decode passes through
verify_receipt(e, token, verify_exp, t) ==
    jwt_decode(token, e.secret, {e.algorithm}, verify_exp, t)

\* where one character of a token can be changed: the part, what the character is,
\* and for a character of a claim value the claim's key
Places ==
    [part : {"separator"}, kind : {"dot"}, key : {""}]
        \cup [part : {"header"}, key : {""},
              kind : {"alg value", "typ value", "JSON syntax", "not of the alphabet"}]
        \cup [part : {"payload"}, key : {""},
              kind : {"JSON syntax", "unused bits", "not of the alphabet"}]
        \cup [part : {"payload"}, kind : {"claim value"}, key : {"id", "decision", "aud"}]
        \cup [part : {"signature"}, key : {""},
              kind : {"significant bits", "unused bits", "not of the alphabet"}]

NoPlace == [part |-> "none", kind |-> "none", key |-> ""]

\* the token has a character of that place
has_place(token, p) ==
    p.kind = "claim value" => p.key \in DOMAIN token.payload.content.claims

\* the token with its character at the place changed
alter(token, p) ==
    CASE p.part = "separator" -> [token EXCEPT !.dots = 1]
      [] p.part = "header" /\ p.kind = "alg value" ->
            [token EXCEPT !.header.content.alg = "HS255"]
      [] p.part = "header" /\ p.kind = "typ value" ->
            [token EXCEPT !.header.content.typ = "JWS"]
      [] p.part = "header" /\ p.kind = "JSON syntax" ->
            [token EXCEPT !.header.content.json_ok = FALSE]
      [] p.part = "header" /\ p.kind = "not of the alphabet" ->
            [token EXCEPT !.header.clean = FALSE]
      [] p.part = "payload" /\ p.kind = "JSON syntax" ->
            [token EXCEPT !.payload.content.json_ok = FALSE]
      [] p.part = "payload" /\ p.kind = "unused bits" -> [token EXCEPT !.payload.pad = 1]
      [] p.part = "payload" /\ p.kind = "not of the alphabet" ->
            [token EXCEPT !.payload.clean = FALSE]
      [] p.part = "payload" /\ p.kind = "claim value" ->
            [token EXCEPT !.payload.content.claims[p.key] = PyStr("tampered")]
      [] p.part = "signature" /\ p.kind = "significant bits" ->
            [token EXCEPT !.signature.content.flip = 1]
      [] p.part = "signature" /\ p.kind = "unused bits" ->
            [token EXCEPT !.signature.pad = 1]
      [] OTHER -> [token EXCEPT !.signature.clean = FALSE]

NotSigned ==
    [done |-> FALSE, error |-> "none", input |-> EmptyMap, map_after |-> EmptyMap,
     expiry_hours |-> 0]
NoWire == [place |-> NoPlace, token |-> NoToken]
NotVerified ==
    [done |-> FALSE, place |-> NoPlace, verify_exp |-> TRUE, outcome |-> "none",
     claims |-> EmptyMap]

-----------------------------------------------------------------------------
(* seed_sample_data: utc/database/init_db.py lines 89-225 *)

\* the decisions of the three sample receipts (lines 106-133)
SampleDecisions == <<ALLOW, REQUIRE_APPROVAL, DENY>>

\* the confidences of the three sample events (lines 148-181)
SampleConfidences == <<<<95, 100>>, <<1, 1>>, <<7, 10>>>>

\* the three sample features (lines 196-221)
SampleFeatures ==
    <<[unit |-> "route:/users", lambda_est |-> <<1, 10>>, mu_est |-> <<1, 1>>,
       rho |-> <<1, 10>>],
      [unit |-> "route:/payments", lambda_est |-> <<6, 10>>, mu_est |-> <<1, 1>>,
       rho |-> <<6, 10>>],
      [unit |-> "route:/admin", lambda_est |-> <<95, 100>>, mu_est |-> <<1, 10>>,
       rho |-> <<95, 10>>]>>

\* Receipt.__init__ (receipt.py lines 299-305): the decision is a DecisionType value
receipt_init_ok(decision) == decision \in {ALLOW, DENY, REQUIRE_APPROVAL, POLICY_CHANGE}

\* Event.__init__ (event.py lines 236-237): the confidence lies in 0.0 .. 1.0
event_init_ok(confidence) ==
    RatLeq(Int2Rat(0), confidence) /\ RatLeq(confidence, Int2Rat(1))

\* Feature.__init__ (feature.py lines 194-202): rho in 0.0 .. 1.0, lambda >= 0, mu > 0
feature_init_ok(f) ==
    /\ RatLeq(Int2Rat(0), f.rho) /\ RatLeq(f.rho, Int2Rat(1))
    /\ RatLeq(Int2Rat(0), f.lambda_est)
    /\ RatLess(Int2Rat(0), f.mu_est)

NotSeeded ==
    [ran |-> FALSE, fresh |-> FALSE, error |-> "none",
     receipts |-> 0, events |-> 0, features |-> 0]

-----------------------------------------------------------------------------
(* Initial state: init_database() has created the empty tables *)

Init ==
    /\ rules = [k \in RuleKey |-> NoRule]
    /\ receipts = <<>>
    /\ calls = [k \in RuleKey |-> 0]
    /\ features = [u \in Units |-> NoFeature]
    /\ n_obs = [u \in Units |-> 0]
    /\ sess = [s \in Sessions |-> IdleSession]
    /\ lock = NoSession
    /\ now = 0
    /\ last = NoDecision
    /\ qsess = [s \in Sessions |-> IdleQSession]
    /\ applied = [u \in Units |-> <<>>]
    /\ dups = [u \in Units |-> <<>>]
    /\ config = DefaultConfig
    /\ shared = NoSharedService
    /\ engine = DefaultEngine
    /\ clock = 0
    /\ signed = NotSigned
    /\ wire = NoWire
    /\ verified = NotVerified
    /\ sample = NotSeeded

-----------------------------------------------------------------------------
(* The transaction boundary: utc/database/session.py get_db_context *)

\* a variant whose with-block swallows the exception and commits what was flushed
RolledBackButCommitted(s, error) ==
    /\ rules' = [k \in RuleKey |->
            IF sess[s].writes[k].dirty
            THEN [exists |-> TRUE, value |-> sess[s].writes[k].value,
                  updated_at |-> sess[s].writes[k].updated_at]
            ELSE rules[k]]
    /\ receipts' = receipts \o sess[s].new_receipts
    /\ calls' = [k \in RuleKey |-> calls[k] + sess[s].new_calls[k]]
    /\ sess' = [sess EXCEPT ![s] = [IdleSession EXCEPT !.error = error]]
    /\ lock' = IF lock = s THEN NoSession ELSE lock
    /\ UNCHANGED <<features, n_obs, qvars, now, svars, sample>>
    /\ last' = NoDecision

\* db.rollback() then db.close(): everything of the transaction is dropped, the lock released
RolledBack(s, error) ==
    /\ sess' = [sess EXCEPT ![s] = [IdleSession EXCEPT !.error = error]]
    /\ lock' = IF lock = s THEN NoSession ELSE lock
    /\ UNCHANGED <<rules, receipts, calls, features, n_obs, qvars, now, svars, sample>>
    /\ last' = NoDecision

\* the rules table with the session's flushed UPDATEs applied
committed_rules(s) ==
    [k \in RuleKey |->
        IF sess[s].writes[k].dirty
        THEN [exists |-> TRUE, value |-> sess[s].writes[k].value,
              updated_at |-> sess[s].writes[k].updated_at]
        ELSE rules[k]]

\* a variant whose commit rewrites the receipts table with the transaction's receipts
CommittedOverLedger(s) ==
    /\ rules' = committed_rules(s)
    /\ receipts' = sess[s].new_receipts
    /\ calls' = [k \in RuleKey |-> calls[k] + sess[s].new_calls[k]]
    /\ sess' = [sess EXCEPT ![s] = IdleSession]
    /\ lock' = IF lock = s THEN NoSession ELSE lock
    /\ UNCHANGED <<features, n_obs, qvars, now, svars, sample>>
    /\ last' = NoDecision

\* db.commit(): the flushed UPDATEs and INSERTs become visible together; objects expire
Committed(s) ==
    /\ rules' = committed_rules(s)
    /\ receipts' = receipts \o sess[s].new_receipts
    /\ calls' = [k \in RuleKey |-> calls[k] + sess[s].new_calls[k]]
    /\ sess' = [sess EXCEPT ![s] = IdleSession]
    /\ lock' = IF lock = s THEN NoSession ELSE lock
    /\ UNCHANGED <<features, n_obs, qvars, now, svars, sample>>
    /\ last' = NoDecision

InTransaction(s) == [sess[s] EXCEPT !.error = "none"] # IdleSession

\* leaving the with-block normally: line 149
Commit(s) ==
    /\ sess[s].pc = "idle"
    /\ InTransaction(s)
    /\ Committed(s)

\* the caller's own db.rollback() (rules.py __main__, line 393)
Rollback(s) ==
    /\ sess[s].pc = "idle"
    /\ InTransaction(s)
    /\ RolledBack(s, "none")

-----------------------------------------------------------------------------
(* RulesService.set_rule / toggle_rule *)

\* set_rule lines 152-164 once the rule is found: remember the old state, set the attribute
BeginSetRule(s, op, rule_key, enabled, create_receipt, changed_by) ==
    /\ sess' = [sess EXCEPT ![s] =
            [@ EXCEPT !.pc = "flush",
                      !.op = op,
                      !.error = "none",
                      !.rule_key = rule_key,
                      !.enabled = enabled,
                      !.old_state = is_enabled(get_rule(s, rule_key)),
                      !.create_receipt = create_receipt,
                      !.changed_by = changed_by,
                      !.pre = is_enabled(db_row(s, rule_key)),
                      !.cache = loaded(sess[s].cache, s, rule_key)]]
    /\ UNCHANGED <<rules, receipts, calls, features, n_obs, qvars, lock, now, svars, sample>>
    /\ last' = NoDecision

SetRule(s, rule_key, enabled, create_receipt, changed_by) ==
    /\ sess[s].pc = "idle"
    /\ now < MaxClock
    /\ IF ~get_rule(s, rule_key).exists
       THEN RolledBack(s, "ValueError")        \* ValueError("Rule not found")
       ELSE BeginSetRule(s, "set_rule", rule_key, enabled, create_receipt, changed_by)

\* toggle_rule lines 203-209: new_state = not rule.is_enabled(), then set_rule
ToggleRule(s, rule_key, create_receipt, changed_by) ==
    /\ sess[s].pc = "idle"
    /\ now < MaxClock
    /\ IF ~get_rule(s, rule_key).exists
       THEN RolledBack(s, "ValueError")        \* ValueError("Rule not found")
       ELSE BeginSetRule(s, "toggle_rule", rule_key, ~is_enabled(get_rule(s, rule_key)),
                         create_receipt, changed_by)

\* the value rule.enable() / rule.disable() assigns
NewValue(s) == IF sess[s].enabled THEN 1 ELSE 0

\* the flush emits an UPDATE only for a net change of the loaded attribute
NetChange(s) == sess[s].cache[sess[s].rule_key].value # NewValue(s)

\* a variant that creates the receipt whenever create_receipt is set
WantsReceiptAlways(s) == sess[s].create_receipt

\* set_rule line 169: is a receipt to be created
WantsReceipt(s) == sess[s].create_receipt /\ sess[s].old_state # sess[s].enabled

\* set_rule lines 166-177: flush, then either go on to the receipt or return
FlushRule(s) ==
    /\ sess[s].pc = "flush"
    /\ NetChange(s) => lock \in {NoSession, s}
    /\ LET k == sess[s].rule_key
           flushed == IF NetChange(s)
                      THEN [sess[s] EXCEPT
                              !.cache[k] = [loaded |-> TRUE, value |-> NewValue(s)],
                              !.writes[k] = [dirty |-> TRUE, value |-> NewValue(s),
                                             updated_at |-> now + 1],
                              !.new_calls[k] = IF sess[s].create_receipt /\ sess[s].pre # sess[s].enabled
                                               THEN @ + 1 ELSE @]
                      ELSE sess[s]
       IN  /\ sess' = [sess EXCEPT ![s] =
                  IF WantsReceipt(s) THEN [flushed EXCEPT !.pc = "receipt"]
                  ELSE Returned(flushed)]
           /\ lock' = IF NetChange(s) THEN s ELSE lock
           /\ now' = IF NetChange(s) THEN now + 1 ELSE now
    /\ UNCHANGED <<rules, receipts, calls, features, n_obs, qvars, svars, sample>>
    /\ last' = NoDecision

\* the UPDATE cannot get the write lock another transaction holds: OperationalError
FlushRuleLocked(s) ==
    /\ sess[s].pc = "flush"
    /\ NetChange(s)
    /\ lock \notin {NoSession, s}
    /\ RolledBack(s, "OperationalError")

\* _create_policy_change_receipt lines 281-304: build, add, flush
CreateReceipt(s) ==
    /\ sess[s].pc = "receipt"
    /\ sess' = [sess EXCEPT ![s] =
            Returned([@ EXCEPT !.new_receipts =
                Append(@, create_policy_change_receipt(
                    sess[s].rule_key, sess[s].old_state, sess[s].enabled,
                    sess[s].changed_by))])]
    /\ UNCHANGED <<rules, receipts, calls, features, n_obs, qvars, lock, now, svars, sample>>
    /\ last' = NoDecision

\* the receipt's INSERT fails: the exception leaves the with-block, lines 150-152
CreateReceiptFails(s) ==
    /\ sess[s].pc = "receipt"
    /\ RolledBack(s, "PersistenceFailure")

-----------------------------------------------------------------------------
(* The model-level helper toggle_rule(db, key): utc/models/rule.py lines 251-276 *)

\* lines 270-274: look the rule up, rule.toggle()
ModelToggleRule(s, key) ==
    /\ sess[s].pc = "idle"
    /\ now < MaxClock
    /\ IF ~get_rule(s, key).exists
       THEN RolledBack(s, "ValueError")        \* ValueError("Rule not found")
       ELSE /\ sess' = [sess EXCEPT ![s] =
                  [@ EXCEPT !.pc = "commit",
                            !.op = "toggle_rule_helper",
                            !.error = "none",
                            !.create_receipt = FALSE,
                            !.changed_by = DefaultActor,
                            !.rule_key = key,
                            !.enabled = ~is_enabled(get_rule(s, key)),
                            !.old_state = is_enabled(get_rule(s, key)),
                            !.pre = is_enabled(db_row(s, key)),
                            !.cache = loaded(sess[s].cache, s, key)]]
            /\ UNCHANGED <<rules, receipts, calls, features, n_obs, qvars, lock, now, svars, sample>>
            /\ last' = NoDecision

\* line 275: db.commit() flushes the UPDATE and commits the session's transaction
ModelToggleCommit(s) ==
    /\ sess[s].pc = "commit"
    /\ lock \in {NoSession, s}                \* waits for the write lock
    /\ LET k == sess[s].rule_key
           row == [exists |-> TRUE, value |-> NewValue(s), updated_at |-> now + 1]
       IN  /\ rules' = [committed_rules(s) EXCEPT ![k] = row]
           /\ receipts' = receipts \o sess[s].new_receipts
           /\ calls' = [j \in RuleKey |-> calls[j] + sess[s].new_calls[j]]
           /\ sess' = [sess EXCEPT ![s] = IdleSession]
           /\ lock' = NoSession
           /\ now' = now + 1
    /\ UNCHANGED <<features, n_obs, qvars, svars, sample>>
    /\ last' = NoDecision

-----------------------------------------------------------------------------
(* RulesService.evaluate_rules_for_action, called on the session's view *)

Evaluate(s, action) ==
    /\ sess[s].pc = "idle"
    /\ LET d == evaluate_rules_for_action(s, action)
       IN  last' = [valid |-> TRUE, action |-> action,
                    level |-> get_protection_level(features, UnitOf(action)),
                    ro |-> rule_state(s, READ_ONLY_FOR_RISKY),
                    wra |-> rule_state(s, WRITES_REQUIRE_APPROVAL),
                    decision |-> d.decision, rules |-> d.rules, reason |-> d.reason]
    /\ sess' = [sess EXCEPT ![s].cache = evaluate_loaded(s, action), ![s].error = "none"]
    /\ UNCHANGED <<rules, receipts, calls, features, n_obs, qvars, lock, now, svars, sample>>

-----------------------------------------------------------------------------
(* seed_rules: utc/database/init_db.py lines 72-84, one transaction *)

SeedRules ==
    /\ lock = NoSession
    /\ \E k \in RuleKey : ~rules[k].exists
    /\ rules' = [k \in RuleKey |->
            IF rules[k].exists THEN rules[k]
            ELSE [exists |-> TRUE, value |-> 0, updated_at |-> now]]
    /\ UNCHANGED <<receipts, calls, features, n_obs, qvars, sess, lock, now, svars, sample>>
    /\ last' = NoDecision

-----------------------------------------------------------------------------
(* QueueingService calls, each in a transaction of its own *)

\* update_feature lines 156-170; a ValueError rolls the transaction back
update_feature(fs, unit, arrival_rate, service_rate) ==
    LET feature == get_or_create_feature(fs, unit)
        new_lambda == ewma(arrival_rate, feature.lambda_est)
        new_mu == ewma(service_rate, feature.mu_est)
        new_rho == calculate_rho(new_lambda, new_mu)
    IN  IF ~new_rho.ok THEN fs
        ELSE [fs EXCEPT ![unit] = [exists |-> TRUE, lambda_est |-> new_lambda,
                                   mu_est |-> new_mu, rho |-> new_rho.rho]]

UpdateFeature(unit, obs) ==
    /\ lock = NoSession
    /\ n_obs[unit] < MaxObs
    /\ features' = update_feature(features, unit, obs[1], obs[2])
    /\ n_obs' = IF features' = features THEN n_obs ELSE [n_obs EXCEPT ![unit] = @ + 1]
    /\ UNCHANGED <<rules, receipts, calls, sess, lock, now, qvars, svars, sample>>
    /\ last' = NoDecision

\* get_protection_level lines 217-218 on a unit never seen: the feature is created
GetProtectionLevel(unit) ==
    /\ lock = NoSession
    /\ ~features[unit].exists
    /\ features' = [features EXCEPT ![unit] = get_or_create_feature(features, unit)]
    /\ UNCHANGED <<rules, receipts, calls, n_obs, qvars, sess, lock, now, svars, sample>>
    /\ last' = NoDecision

-----------------------------------------------------------------------------
(* QueueingService calls made through a session: the transaction ends with the       *)
(* with-block of get_db_context.  A SELECT takes no lock; the first flushed INSERT or *)
(* UPDATE takes the database write lock until the transaction ends.                  *)

\* a variant that starts a unit at lambda = mu = 10.0
NewFeatureSaturated ==
    [exists |-> TRUE, lambda_est |-> initial_mu, mu_est |-> initial_mu,
     rho |-> calculate_rho(initial_mu, initial_mu).rho]

\* the Feature get_or_create_feature builds for a unit it does not find (lines 120-128)
NewFeature ==
    [exists |-> TRUE, lambda_est |-> initial_lambda, mu_est |-> initial_mu,
     rho |-> calculate_rho(initial_lambda, initial_mu).rho]

\* a variant that smooths from the initial estimates whatever the Feature holds
observe_from_defaults(feature, obs) ==
    LET new_lambda == ewma(obs[1], initial_lambda)
        new_mu == ewma(obs[2], initial_mu)
        new_rho == calculate_rho(new_lambda, new_mu)
    IN  [ok |-> new_rho.ok,
         row |-> [exists |-> TRUE, lambda_est |-> new_lambda, mu_est |-> new_mu,
                  rho |-> new_rho.rho]]

\* update_feature lines 159-166 on a Feature object: the new attribute values
observe(feature, obs) ==
    LET new_lambda == ewma(obs[1], feature.lambda_est)
        new_mu == ewma(obs[2], feature.mu_est)
        new_rho == calculate_rho(new_lambda, new_mu)
    IN  [ok |-> new_rho.ok,
         row |-> [exists |-> TRUE, lambda_est |-> new_lambda, mu_est |-> new_mu,
                  rho |-> new_rho.rho]]

\* the columns the flush puts into the UPDATE: those whose value differs from the loaded one
changed_cols(old, new) == {c \in FeatureColumns : old[c] # new[c]}

RECURSIVE PendingCalls(_, _)
PendingCalls(S, unit) ==
    IF S = {} THEN 0
    ELSE LET s == CHOOSE x \in S : TRUE
             running == qsess[s].pc # "idle" /\ qsess[s].op = "update_feature"
                            /\ qsess[s].unit = unit
         IN  Len(qsess[s].pending[unit]) + (IF running THEN 1 ELSE 0)
               + PendingCalls(S \ {s}, unit)

\* update_feature calls of a unit that are committed or may still commit
ObservedCalls(unit) == Len(applied[unit]) + PendingCalls(Sessions, unit)

\* a variant whose failing call leaves the flushed rows to be committed
QRolledBackButKept(s, op, unit, obs, error) ==
    /\ qsess' = [qsess EXCEPT ![s] =
            [@ EXCEPT !.pc = "idle", !.op = op, !.unit = unit, !.obs = obs, !.error = error,
                      !.writes[unit] = [kind |-> "insert", cols |-> FeatureColumns, row |-> NewFeature],
                      !.cache[unit] = NewFeature]]
    /\ lock' = s
    /\ UNCHANGED <<rules, receipts, calls, features, n_obs, sess, now, applied, dups, config, shared, svars, sample>>
    /\ last' = NoDecision

\* the exception leaves the with-block (session.py lines 150-154): rollback, close
QRolledBack(s, op, unit, obs, error) ==
    /\ qsess' = [qsess EXCEPT ![s] =
            [IdleQSession EXCEPT !.op = op, !.unit = unit, !.obs = obs, !.error = error]]
    /\ lock' = IF lock = s THEN NoSession ELSE lock
    /\ UNCHANGED <<rules, receipts, calls, features, n_obs, sess, now, applied, dups, config, shared, svars, sample>>
    /\ last' = NoDecision

\* the call of session s returned
QReturn(s, ret) ==
    [ret EXCEPT !.unit = qsess[s].unit,
                !.threshold_low = config.threshold_low,
                !.threshold_high = config.threshold_high]

\* update_feature lines 156-166 up to the flush: look the unit up; a Feature found gets
\* its new attribute values
BeginUpdateFeature(s, unit, obs) ==
    /\ qsess[s].pc = "idle"
    /\ ObservedCalls(unit) < MaxCalls
    /\ LET feature == get_feature(s, unit)
           started == [qsess[s] EXCEPT !.op = "update_feature", !.unit = unit, !.obs = obs,
                                        !.error = "none", !.ret = NoReturn]
       IN  IF ~feature.exists
           THEN /\ qsess' = [qsess EXCEPT ![s] = [started EXCEPT !.pc = "insert"]]
                /\ UNCHANGED <<rules, receipts, calls, features, n_obs, sess, lock, now,
                               applied, dups, config, shared, svars, sample>>
                /\ last' = NoDecision
           ELSE IF ~observe(feature, obs).ok
           THEN QRolledBack(s, "update_feature", unit, obs, "ValueError")
           ELSE /\ qsess' = [qsess EXCEPT ![s] =
                      [started EXCEPT !.pc = "flush",
                                      !.ret = [NoReturn EXCEPT !.old = feature],
                                      !.cache[unit] = observe(feature, obs).row]]
                /\ UNCHANGED <<rules, receipts, calls, features, n_obs, sess, lock, now,
                               applied, dups, config, shared, svars, sample>>
                /\ last' = NoDecision

\* update_feature line 168: the flush emits the UPDATE of the changed columns
FlushFeature(s) ==
    /\ qsess[s].pc = "flush"
    /\ LET u == qsess[s].unit
           new == qsess[s].cache[u]
           old == qsess[s].ret.old
           cols == changed_cols(old, new)
       IN  /\ cols # {} => lock \in {NoSession, s}
           /\ qsess' = [qsess EXCEPT ![s] =
                  [@ EXCEPT !.pc = "idle",
                            !.writes[u] = IF cols = {} THEN @
                                          ELSE [kind |-> IF @.kind = "insert" THEN "insert" ELSE "update",
                                                cols |-> @.cols \cup cols,
                                                row |-> new],
                            !.pending[u] = Append(@, qsess[s].obs),
                            !.ret = QReturn(s, [NoReturn EXCEPT !.kind = "feature",
                                                                !.feature = new,
                                                                !.old = old])]]
           /\ lock' = IF cols # {} THEN s ELSE lock
    /\ UNCHANGED <<rules, receipts, calls, features, n_obs, sess, now, applied, dups, config, shared, svars, sample>>
    /\ last' = NoDecision

\* get_or_create_feature lines 120-130 for a unit not found: INSERT of the defaults;
\* update_feature then goes on (lines 159-168) within the lock it holds
InsertFeature(s) ==
    /\ qsess[s].pc = "insert"
    /\ lock \in {NoSession, s}
    /\ LET u == qsess[s].unit
           updating == qsess[s].op = "update_feature"
           r == IF updating THEN observe(NewFeature, qsess[s].obs)
                ELSE [ok |-> TRUE, row |-> NewFeature]
           stored == [qsess[s] EXCEPT
                        !.pc = "idle",
                        !.pending[u] = IF updating THEN Append(@, qsess[s].obs) ELSE @,
                        !.ret = QReturn(s,
                            IF updating
                            THEN [NoReturn EXCEPT !.kind = "feature", !.feature = r.row,
                                                  !.old = NewFeature]
                            ELSE [NoReturn EXCEPT !.kind = "level", !.feature = r.row,
                                                  !.level = feature_protection_level(r.row)])]
       IN  IF ~r.ok
           THEN QRolledBack(s, qsess[s].op, u, qsess[s].obs, "ValueError")
           ELSE /\ qsess' = [qsess EXCEPT ![s] =
                      IF features[u].exists
                      THEN [stored EXCEPT !.newdups[u] = Append(@, r.row)]
                      ELSE [stored EXCEPT
                              !.writes[u] = [kind |-> "insert", cols |-> FeatureColumns, row |-> r.row],
                              !.cache[u] = r.row]]
                /\ lock' = s
                /\ UNCHANGED <<rules, receipts, calls, features, n_obs, sess, now,
                               applied, dups, config, shared, svars, sample>>
                /\ last' = NoDecision

\* the INSERT or UPDATE cannot get the write lock another transaction holds: OperationalError
FeatureLocked(s) ==
    /\ qsess[s].pc \in {"insert", "flush"}
    /\ lock \notin {NoSession, s}
    /\ qsess[s].pc = "flush" =>
          changed_cols(qsess[s].ret.old, qsess[s].cache[qsess[s].unit]) # {}
    /\ QRolledBack(s, qsess[s].op, qsess[s].unit, qsess[s].obs, "OperationalError")

\* get_protection_level lines 217-218: the Feature's own mapping of rho
QueryProtectionLevel(s, unit) ==
    /\ qsess[s].pc = "idle"
    /\ LET feature == get_feature(s, unit)
           started == [qsess[s] EXCEPT !.op = "get_protection_level", !.unit = unit,
                                        !.error = "none", !.ret = NoReturn]
       IN  qsess' = [qsess EXCEPT ![s] =
              IF ~feature.exists
              THEN [started EXCEPT !.pc = "insert"]
              ELSE [started EXCEPT
                      !.cache[unit] = feature,
                      !.ret = [NoReturn EXCEPT !.kind = "level", !.unit = unit,
                                 !.feature = feature,
                                 !.level = feature_protection_level(feature),
                                 !.threshold_low = config.threshold_low,
                                 !.threshold_high = config.threshold_high]]]
    /\ UNCHANGED <<rules, receipts, calls, features, n_obs, sess, lock, now, applied, dups, config, shared, svars, sample>>
    /\ last' = NoDecision

\* should_auto_relax lines 239-243
ShouldAutoRelax(s, unit) ==
    /\ qsess[s].pc = "idle"
    /\ LET feature == get_feature(s, unit)
       IN  qsess' = [qsess EXCEPT ![s] =
              [@ EXCEPT !.op = "should_auto_relax", !.unit = unit, !.error = "none",
                        !.cache[unit] = feature,
                        !.ret = [NoReturn EXCEPT !.kind = "relax", !.unit = unit,
                                   !.feature = feature,
                                   !.relax = IF ~feature.exists THEN FALSE
                                             ELSE RatLess(feature.rho, RelaxThreshold),
                                   !.threshold_low = config.threshold_low,
                                   !.threshold_high = config.threshold_high]]]
    /\ UNCHANGED <<rules, receipts, calls, features, n_obs, sess, lock, now, applied, dups, config, shared, svars, sample>>
    /\ last' = NoDecision

\* the session has loaded or written something
QInTransaction(s) ==
    \E u \in Units :
        \/ qsess[s].cache[u].exists
        \/ qsess[s].writes[u].kind # "none"
        \/ qsess[s].newdups[u] # <<>>

\* the features table with the session's flushed INSERTs and UPDATEs applied
committed_features(s) ==
    [u \in Units |->
        LET w == qsess[s].writes[u]
        IN  IF w.kind = "insert" THEN w.row
            ELSE IF w.kind = "update"
            THEN [exists |-> TRUE,
                  lambda_est |-> IF "lambda_est" \in w.cols THEN w.row.lambda_est
                                 ELSE features[u].lambda_est,
                  mu_est |-> IF "mu_est" \in w.cols THEN w.row.mu_est ELSE features[u].mu_est,
                  rho |-> IF "rho" \in w.cols THEN w.row.rho ELSE features[u].rho]
            ELSE features[u]]

\* leaving the with-block normally (session.py line 149): db.commit()
CommitFeatures(s) ==
    /\ qsess[s].pc = "idle"
    /\ QInTransaction(s)
    /\ features' = committed_features(s)
    /\ dups' = [u \in Units |-> dups[u] \o qsess[s].newdups[u]]
    /\ applied' = [u \in Units |-> applied[u] \o qsess[s].pending[u]]
    /\ qsess' = [qsess EXCEPT ![s] = IdleQSession]
    /\ lock' = IF lock = s THEN NoSession ELSE lock
    /\ UNCHANGED <<rules, receipts, calls, n_obs, sess, now, config, shared, svars, sample>>
    /\ last' = NoDecision

\* QueueingService(db, threshold_low=low, threshold_high=high): __init__ lines 74-83
Construct(low, high) ==
    /\ \A s \in Sessions : qsess[s].pc = "idle"
    /\ config' = IF thresholds_accepted(low, high)
                 THEN [threshold_low |-> low, threshold_high |-> high]
                 ELSE config                   \* ValueError: no service is built
    /\ UNCHANGED <<rules, receipts, calls, features, n_obs, sess, lock, now, qsess, applied, dups, shared, svars, sample>>
    /\ last' = NoDecision

-----------------------------------------------------------------------------
(* The shared QueueingService: get_queueing_service, lines 313-340.  A request is   *)
(* named by the session it opened with get_db_context.                              *)

\* service = get_queueing_service(db): the one instance, its .db set to the session
\* passed (lines 336-340)
GetQueueingService(r) ==
    /\ r \notin shared.holders
    /\ qsess[r] = IdleQSession
    /\ shared' = [shared EXCEPT !.db = r, !.holders = @ \cup {r}]
    /\ UNCHANGED <<rules, receipts, calls, features, n_obs, sess, lock, now,
                   qsess, applied, dups, config, svars, sample>>
    /\ last' = NoDecision

\* service.update_feature(unit, arrival_rate, service_rate) by request r: lines 156-170
\* run on self.db, the session the instance names when the call is made
SharedUpdateFeature(r, unit, obs) ==
    /\ r \in shared.holders
    /\ ObservedCalls(unit) < MaxCalls
    /\ LET x == shared.db
           found == get_feature(x, unit)
           old == IF found.exists THEN found ELSE NewFeature
           res == observe(old, obs)
           cols == IF found.exists THEN changed_cols(old, res.row) ELSE FeatureColumns
       IN  /\ qsess[x].pc = "idle"
           /\ res.ok
           /\ lock \in {NoSession, x}
           /\ qsess' = [qsess EXCEPT ![x] =
                  [@ EXCEPT !.op = "update_feature", !.unit = unit, !.obs = obs,
                            !.error = "none",
                            !.cache[unit] = res.row,
                            !.writes[unit] =
                                [kind |-> IF ~found.exists \/ @.kind = "insert"
                                          THEN "insert" ELSE "update",
                                 cols |-> @.cols \cup cols,
                                 row |-> res.row],
                            !.pending[unit] = Append(@, obs),
                            !.ret = [NoReturn EXCEPT !.kind = "feature", !.unit = unit,
                                       !.feature = res.row, !.old = old,
                                       !.threshold_low = config.threshold_low,
                                       !.threshold_high = config.threshold_high]]]
           /\ lock' = x
           /\ shared' = [shared EXCEPT !.ran = @ \cup {<<r, x>>}]
    /\ UNCHANGED <<rules, receipts, calls, features, n_obs, sess, now, applied, dups,
                   config, svars, sample>>
    /\ last' = NoDecision

\* request r leaves its with-block (session.py lines 146-154): its own session is
\* committed and closed, and the request drops its reference to the service
EndRequest(r) ==
    /\ r \in shared.holders
    /\ qsess[r].pc = "idle"
    /\ features' = committed_features(r)
    /\ dups' = [u \in Units |-> dups[u] \o qsess[r].newdups[u]]
    /\ applied' = [u \in Units |-> applied[u] \o qsess[r].pending[u]]
    /\ qsess' = [qsess EXCEPT ![r] = IdleQSession]
    /\ lock' = IF lock = r THEN NoSession ELSE lock
    /\ shared' = [shared EXCEPT !.holders = @ \ {r}]
    /\ UNCHANGED <<rules, receipts, calls, n_obs, sess, now, config, svars, sample>>
    /\ last' = NoDecision

-----------------------------------------------------------------------------
(* seed_sample_data, one transaction of get_db_context *)

\* the receipts and events are built, added and flushed, then the list of sample
\* features is built: a constructor that raises leaves the with-block, and all that
\* was flushed is rolled back
SeedSampleData ==
    /\ ~sample.ran
    /\ lock = NoSession
    /\ \A s \in Sessions : sess[s].pc = "idle"
    /\ LET ok == /\ \A i \in DOMAIN SampleDecisions : receipt_init_ok(SampleDecisions[i])
                 /\ \A i \in DOMAIN SampleConfidences : event_init_ok(SampleConfidences[i])
                 /\ \A i \in DOMAIN SampleFeatures : feature_init_ok(SampleFeatures[i])
           fresh == /\ receipts = <<>>
                    /\ \A k \in RuleKey : ~rules[k].exists
                    /\ \A u \in Units : ~features[u].exists
       IN  sample' = IF ok
                     THEN [ran |-> TRUE, fresh |-> fresh, error |-> "none",
                           receipts |-> Len(SampleDecisions),
                           events |-> Len(SampleConfidences),
                           features |-> Len(SampleFeatures)]
                     ELSE [ran |-> TRUE, fresh |-> fresh, error |-> "ValueError",
                           receipts |-> 0, events |-> 0, features |-> 0]
    /\ UNCHANGED <<rules, receipts, calls, features, n_obs, sess, lock, now, qvars, svars>>
    /\ last' = NoDecision

-----------------------------------------------------------------------------
(* SigningService calls *)

\* signer = SigningService(secret); after a ValueError there is no engine to call
ConstructSigner(arg) ==
    /\ engine' = signing_service(arg, jwt_algorithm)
    /\ signed' = NotSigned
    /\ wire' = NoWire
    /\ verified' = NotVerified
    /\ UNCHANGED <<rules, receipts, calls, features, n_obs, sess, lock, now, qvars, clock, sample>>
    /\ last' = NoDecision

\* token = signer.sign_receipt(receipt_data, expiry_hours)
SignReceipt(receipt_data, expiry_hours) ==
    /\ engine.error = "none"
    /\ LET r == sign_receipt(engine, receipt_data, expiry_hours, clock)
       IN  /\ signed' = [done |-> TRUE, error |-> r.error, input |-> receipt_data,
                         map_after |-> receipt_data,    \* the payload is a copy (line 101)
                         expiry_hours |-> expiry_hours]
           /\ wire' = [place |-> NoPlace, token |-> r.token]
    /\ verified' = NotVerified
    /\ UNCHANGED <<rules, receipts, calls, features, n_obs, sess, lock, now, qvars, engine, clock, sample>>
    /\ last' = NoDecision

\* one character of the token is changed on its way to the verifier
Tamper(p) ==
    /\ signed.done
    /\ signed.error = "none"
    /\ wire.place = NoPlace
    /\ has_place(wire.token, p)
    /\ wire' = [place |-> p, token |-> alter(wire.token, p)]
    /\ verified' = NotVerified
    /\ UNCHANGED <<rules, receipts, calls, features, n_obs, sess, lock, now, qvars,
                   engine, clock, signed, sample>>
    /\ last' = NoDecision

\* signer.verify_receipt(token, verify_exp)
VerifyReceipt(verify_exp) ==
    /\ engine.error = "none"
    /\ signed.done
    /\ signed.error = "none"
    /\ LET r == verify_receipt(engine, wire.token, verify_exp, clock)
       IN  verified' = [done |-> TRUE, place |-> wire.place, verify_exp |-> verify_exp,
                        outcome |-> r.outcome, claims |-> r.claims]
    /\ UNCHANGED <<rules, receipts, calls, features, n_obs, sess, lock, now, qvars,
                   engine, clock, signed, wire, sample>>
    /\ last' = NoDecision

\* an hour passes
Tick ==
    /\ clock < MaxTime
    /\ clock' = clock + 1
    /\ verified' = NotVerified
    /\ UNCHANGED <<rules, receipts, calls, features, n_obs, sess, lock, now, qvars,
                   engine, signed, wire, sample>>
    /\ last' = NoDecision

-----------------------------------------------------------------------------
(* Specifications *)

\* Spec: rule management, the requests served one after the other, each in a session
\* of its own that ends before the next begins (so one session stands for all of them)
Next ==
    \/ \E k \in RuleKey, e \in BOOLEAN, c \in BOOLEAN, by \in Actors : SetRule(Serial, k, e, c, by)
    \/ \E k \in RuleKey, c \in BOOLEAN, by \in Actors : ToggleRule(Serial, k, c, by)
    \/ FlushRule(Serial)
    \/ CreateReceipt(Serial)
    \/ CreateReceiptFails(Serial)
    \/ \E k \in RuleKey : ModelToggleRule(Serial, k)
    \/ ModelToggleCommit(Serial)
    \/ Commit(Serial)
    \/ Rollback(Serial)
    \/ SeedRules

Spec == Init /\ [][Next]_vars

\* SpecEval: policy evaluation, while the rules are set (all arguments but the state
\* at their defaults) and the load estimator is fed observations
NextEval ==
    \/ \E a \in ActionStrings : Evaluate(Serial, a)
    \/ \E k \in RuleKey, e \in BOOLEAN : SetRule(Serial, k, e, TRUE, DefaultActor)
    \/ FlushRule(Serial)
    \/ CreateReceipt(Serial)
    \/ Commit(Serial)
    \/ Rollback(Serial)
    \/ SeedRules
    \/ \E u \in Units, o \in Observations : UpdateFeature(u, o)
    \/ \E u \in Units : GetProtectionLevel(u)

SpecEval == Init /\ [][NextEval]_vars

\* SpecConc: set_rule / toggle_rule requests of concurrent sessions under any
\* interleaving (create_receipt and changed_by at their defaults)
NextConc ==
    \/ \E s \in Sessions, k \in RuleKey, e \in BOOLEAN : SetRule(s, k, e, TRUE, DefaultActor)
    \/ \E s \in Sessions, k \in RuleKey : ToggleRule(s, k, TRUE, DefaultActor)
    \/ \E s \in Sessions : FlushRule(s)
    \/ \E s \in Sessions : FlushRuleLocked(s)
    \/ \E s \in Sessions : CreateReceipt(s)
    \/ \E s \in Sessions : CreateReceiptFails(s)
    \/ \E s \in Sessions : Commit(s)
    \/ \E s \in Sessions : Rollback(s)
    \/ SeedRules

SpecConc == Init /\ [][NextConc]_vars

\* SpecQueue: QueueingService calls, the requests served one after the other
NextQueue ==
    \/ \E u \in Units, o \in SerialObservations : BeginUpdateFeature(Serial, u, o)
    \/ InsertFeature(Serial)
    \/ FlushFeature(Serial)
    \/ \E u \in Units : QueryProtectionLevel(Serial, u)
    \/ \E u \in Units : ShouldAutoRelax(Serial, u)
    \/ CommitFeatures(Serial)
    \/ \E p \in ThresholdPairs : Construct(p[1], p[2])

SpecQueue == Init /\ [][NextQueue]_vars

\* SpecQueueConc: update_feature / get_protection_level calls of concurrent sessions
\* under any interleaving, the service constructed with the thresholds of the settings
NextQueueConc ==
    \/ \E s \in Sessions, u \in Units, o \in QueueObservations : BeginUpdateFeature(s, u, o)
    \/ \E s \in Sessions : InsertFeature(s)
    \/ \E s \in Sessions : FlushFeature(s)
    \/ \E s \in Sessions : FeatureLocked(s)
    \/ \E s \in Sessions, u \in Units : QueryProtectionLevel(s, u)
    \/ \E s \in Sessions : CommitFeatures(s)

SpecQueueConc == Init /\ [][NextQueueConc]_vars


\* SpecSign: receipts are signed, carried to the verifier (unchanged or with one
\* character changed) and verified
NextSign ==
    \/ \E arg \in SecretArgs : ConstructSigner(arg)
    \/ \E c \in ClaimMaps, h \in ExpiryHours : SignReceipt(c, h)
    \/ \E p \in Places : Tamper(p)
    \/ \E verify_exp \in BOOLEAN : VerifyReceipt(verify_exp)
    \/ Tick

SpecSign == Init /\ [][NextSign]_vars

\* SpecShared: requests that obtain the QueueingService from get_queueing_service,
\* each with a session of its own, under any interleaving
NextShared ==
    \/ \E r \in Sessions : GetQueueingService(r)
    \/ \E r \in Sessions, u \in Units, o \in SharedObservations : SharedUpdateFeature(r, u, o)
    \/ \E r \in Sessions : EndRequest(r)

SpecShared == Init /\ [][NextShared]_vars

\* SpecSeed: the database is initialised (seed_rules, seed_sample_data) and the rules
\* are then managed
NextSeed ==
    \/ SeedSampleData
    \/ SeedRules
    \/ \E k \in RuleKey, e \in BOOLEAN : SetRule(Serial, k, e, TRUE, DefaultActor)
    \/ FlushRule(Serial)
    \/ CreateReceipt(Serial)
    \/ Commit(Serial)
    \/ Rollback(Serial)

SpecSeed == Init /\ [][NextSeed]_vars

\* SpecLedger: every operation of the services around the receipts table: rules are
\* set and toggled, actions evaluated, load observed, a receipt signed and verified
NextLedger ==
    \/ \E k \in RuleKey, e \in BOOLEAN : SetRule(Serial, k, e, TRUE, DefaultActor)
    \/ \E k \in RuleKey : ToggleRule(Serial, k, TRUE, DefaultActor)
    \/ FlushRule(Serial)
    \/ CreateReceipt(Serial)
    \/ Commit(Serial)
    \/ Rollback(Serial)
    \/ SeedRules
    \/ \E a \in ActionStrings : Evaluate(Serial, a)
    \/ \E u \in Units, o \in Observations : UpdateFeature(u, o)
    \/ SignReceipt(ReceiptData(ALLOW), 0)
    \/ VerifyReceipt(TRUE)

SpecLedger == Init /\ [][NextLedger]_vars

-----------------------------------------------------------------------------
(* Policy evaluation: C1 - C5, under SpecEval.  `last` holds the Decision just      *)
(* returned, the action it was asked about, the state of the two rules as the        *)
(* evaluating session saw them and the protection level of the action's unit.        *)

\* C1: evaluate returns DENY exactly when the action is a write, read_only_for_risky
\* is enabled and the protection level of the action's unit is read_only; a DENY
\* carries matchedRules = [read_only_for_risky].
C1_DenyExactlyForRiskyUnit ==
    last.valid =>
        /\ (last.decision = DENY) <=>
               (is_write(last.action) /\ last.ro = "on" /\ last.level = "read_only")
        /\ (last.decision = DENY) => (last.rules = <<READ_ONLY_FOR_RISKY>>)

\* C2: a write that neither the deny step nor the writes_require_approval step
\* catches, on a unit whose level is require_approval, gets REQUIRE_APPROVAL with
\* no matched rule and a reason other than the policy-based one.
C2_LoadBasedEscalation ==
    (/\ last.valid
     /\ is_write(last.action)
     /\ last.level = "require_approval"
     /\ last.ro \in {"on", "off"}
     /\ last.wra = "off")
    =>
        /\ last.decision = REQUIRE_APPROVAL
        /\ last.rules = <<>>
        /\ last.reason \notin {"Approval required for writes",
                               "No restrictive policies active",
                               "Read-only mode active for risky units"}

\* C3: a write with read_only_for_risky enabled on a unit whose level is read_only
\* is DENY with matchedRules exactly [read_only_for_risky], whatever the state of
\* writes_require_approval.
C3_DenyOutranksApproval ==
    (/\ last.valid
     /\ is_write(last.action)
     /\ last.ro = "on"
     /\ last.level = "read_only")
    =>
        /\ last.decision = DENY
        /\ last.rules = <<READ_ONLY_FOR_RISKY>>

\* C3 witness: such a write was denied while writes_require_approval was enabled too
C3_Witness ==
    /\ last.valid
    /\ is_write(last.action)
    /\ last.ro = "on"
    /\ last.wra = "on"
    /\ last.level = "read_only"
    /\ last.decision = DENY

\* C4: an action without the write prefix is ALLOW with no matched rule under every
\* rule state and protection level, and so is a write with both rules off on a
\* permissive unit.
C4_DefaultAllow ==
    (/\ last.valid
     /\ \/ ~is_write(last.action)
        \/ (last.ro = "off" /\ last.wra = "off" /\ last.level = "permissive"))
    =>
        /\ last.decision = ALLOW
        /\ last.rules = <<>>

\* C4 witness: a read was allowed with both rules enabled on a read_only unit
C4_Witness ==
    /\ last.valid
    /\ last.action.prefix = ACTION_PREFIX_READ
    /\ last.ro = "on"
    /\ last.wra = "on"
    /\ last.level = "read_only"
    /\ last.decision = ALLOW

\* C5: evaluate never returns ALLOW for a write while the record of one of the two
\* rules is missing from the store.
C5_FailClosed ==
    (/\ last.valid
     /\ is_write(last.action)
     /\ (last.ro = "missing" \/ last.wra = "missing"))
    => last.decision # ALLOW

-----------------------------------------------------------------------------
(* Rule management: C6 - C8, under Spec (one request at a time) *)

\* the POLICY_CHANGE receipts of a key among rs, in order
PolicyChanges(rs, key) ==
    SelectSeq(rs, LAMBDA r : r.decision = POLICY_CHANGE /\ r.meta.rule_key = key)

\* the step of session s is the return of a set_rule / toggle_rule call
ReturnsFromSetRule(s) ==
    /\ sess[s].pc \in {"flush", "receipt"}
    /\ sess'[s].pc = "idle"
    /\ sess'[s].op \in {"set_rule", "toggle_rule"}

\* C6: set_rule(key, v) on a rule whose state is already v appends no receipt and
\* leaves the rule's value and updated_at as they were (so a second set_rule(key, v)
\* right after a first changes nothing).
C6_NoOpToggle ==
    [][\A s \in Sessions :
          (/\ sess[s].pc = "flush"
           /\ sess'[s].pc # "flush"
           /\ sess[s].pre = sess[s].enabled)
          =>
            /\ sess'[s].pc = "idle"
            /\ sess'[s].new_receipts = sess[s].new_receipts
            /\ db_row(s, sess[s].rule_key)' = db_row(s, sess[s].rule_key)
            /\ rules' = rules
            /\ receipts' = receipts]_vars

\* C6 witness: set_rule(key, True) has returned on a rule that was on already,
\* after an earlier call had switched it on
C6_Witness ==
    \E s \in Sessions :
        /\ sess[s].pc = "idle"
        /\ sess[s].op = "set_rule"
        /\ sess[s].enabled
        /\ sess[s].pre
        /\ rules[sess[s].rule_key].value = 1
        /\ rules[sess[s].rule_key].updated_at > 0
        /\ Len(PolicyChanges(receipts, sess[s].rule_key)) = 1

\* C7: a set_rule / toggle_rule call with create_receipt at its default appends
\* exactly one POLICY_CHANGE receipt (subject = the actor, rules = [key], old_state =
\* the state before the call, new_state = the state after it) when it changes the
\* rule's state and none otherwise; the committed POLICY_CHANGE receipts of a key
\* are as many as the committed state-changing calls for it.
C7_OneReceiptPerChange ==
    /\ [](\A k \in RuleKey : Len(PolicyChanges(receipts, k)) = calls[k])
    /\ [][\A s \in Sessions :
            (ReturnsFromSetRule(s) /\ sess[s].create_receipt)
            =>
              LET k == sess[s].rule_key
                  before == sess[s].pre
                  after == is_enabled(db_row(s, k))'
              IN  IF before # after
                  THEN /\ Len(sess'[s].new_receipts) = Len(sess[s].new_receipts) + 1
                       /\ LET r == sess'[s].new_receipts[Len(sess'[s].new_receipts)]
                          IN  /\ r.decision = POLICY_CHANGE
                              /\ r.subject = sess[s].changed_by
                              /\ r.rules = <<k>>
                              /\ r.meta.old_state = before
                              /\ r.meta.new_state = after
                       /\ SubSeq(sess'[s].new_receipts, 1, Len(sess[s].new_receipts))
                            = sess[s].new_receipts
                  ELSE sess'[s].new_receipts = sess[s].new_receipts]_vars

\* C7 witness: two state-changing calls for one key are committed with their two
\* receipts, the first made by an actor other than the default
C7_Witness ==
    \E k \in RuleKey :
        /\ calls[k] = 2
        /\ Len(PolicyChanges(receipts, k)) = 2
        /\ PolicyChanges(receipts, k)[1].subject # DefaultActor
        /\ PolicyChanges(receipts, k)[1].meta.new_state
        /\ ~PolicyChanges(receipts, k)[2].meta.new_state

\* the state the POLICY_CHANGE receipts of a key record: off, then the new_state of the latest
AuditedState(key) ==
    LET rs == PolicyChanges(receipts, key)
    IN  IF rs = <<>> THEN FALSE ELSE rs[Len(rs)].meta.new_state

\* C8: the committed value of every rule is the one its POLICY_CHANGE receipts record
C8_EveryChangeAudited ==
    \A k \in RuleKey : rules[k].exists => (is_enabled(rules[k]) = AuditedState(k))

-----------------------------------------------------------------------------
(* Transactions and concurrent sessions: C9, C10, under SpecConc *)

\* the positions of the receipts a step commits
Persisted == (Len(receipts) + 1) .. Len(receipts')

\* C9: a step that fails the creation of a receipt persists nothing; a receipt is
\* persisted only together with the update of its rule; the state change of a call
\* made with create_receipt at its default is persisted only together with a receipt.
C9_ToggleAtomic ==
    [][/\ \A s \in Sessions :
             (sess[s].pc = "receipt" /\ sess'[s].error = "PersistenceFailure")
             => (rules' = rules /\ receipts' = receipts /\ ~InTransaction(s)')
       /\ \A i \in Persisted :
             LET k == receipts'[i].meta.rule_key
             IN  rules'[k].updated_at > rules[k].updated_at
       /\ \A k \in RuleKey :
             calls'[k] > calls[k] =>
                /\ rules'[k].updated_at > rules[k].updated_at
                /\ \E i \in Persisted : receipts'[i].meta.rule_key = k]_vars

\* C9 witness: the receipt of a state-changing call failed, and neither the new
\* value nor a receipt is in the store
C9_Witness ==
    \E s \in Sessions :
        /\ sess[s].error = "PersistenceFailure"
        /\ receipts = <<>>
        /\ \A k \in RuleKey : rules[k].exists /\ rules[k].value = 0 /\ rules[k].updated_at = 0

\* the state of a key right before the i-th receipt of a commit took effect
StateBefore(i) ==
    LET k == receipts'[i].meta.rule_key
        earlier == {j \in Persisted : j < i /\ receipts'[j].meta.rule_key = k}
    IN  IF earlier = {}
        THEN is_enabled(rules[k])
        ELSE receipts'[CHOOSE j \in earlier : \A j2 \in earlier : j2 <= j].meta.new_state

\* C10: every receipt records as old_state the state its rule had right before the
\* receipt's change took effect, and no two successive receipts of a key record the
\* same transition.
C10_NoStaleOldState ==
    /\ [][\A i \in Persisted : receipts'[i].meta.old_state = StateBefore(i)]_vars
    /\ [](\A k \in RuleKey :
            LET rs == PolicyChanges(receipts, k)
            IN  \A i \in 1 .. (Len(rs) - 1) :
                    <<rs[i].meta.old_state, rs[i].meta.new_state>>
                        # <<rs[i + 1].meta.old_state, rs[i + 1].meta.new_state>>)

-----------------------------------------------------------------------------
(* The load estimator: C11 - C18, under SpecQueue and SpecQueueConc *)

\* the (lambda, mu) pairs that applying the EWMA step for every observation of obs with
\* an index in I yields from (lambda_est, mu_est), over all orders
RECURSIVE SerialResults(_, _, _, _)
SerialResults(lambda_est, mu_est, obs, I) ==
    IF I = {} THEN {<<lambda_est, mu_est>>}
    ELSE UNION {SerialResults(ewma(obs[i][1], lambda_est), ewma(obs[i][2], mu_est),
                              obs, I \ {i}) : i \in I}

\* C11: the stored lambda and mu of a unit (kept in a single row) are what applying the
\* EWMA step for every committed observation of the unit, in some serial order, gives
\* from the initial estimates: no committed observation is lost.
C11_NoLostUpdates ==
    \A u \in Units :
        (features[u].exists /\ dups[u] = <<>>)
        => <<features[u].lambda_est, features[u].mu_est>>
              \in SerialResults(initial_lambda, initial_mu, applied[u], DOMAIN applied[u])

\* rho as the stored lambda and mu give it: min(lambda / mu, 0.99)
RhoOf(f) == RatMin(RatDiv(f.lambda_est, f.mu_est), <<99, 100>>)

PositiveObservations(obs) == \A i \in DOMAIN obs : obs[i][1] > 0 /\ obs[i][2] > 0

\* C12: after update_feature calls with positive observed rates the stored rho of
\* every unit is min(lambda / mu, 0.99) of the stored lambda and mu, so rho <= 0.99;
\* the Feature a call returns is consistent in the same way.
C12_RhoFollowsEstimates ==
    /\ \A u \in Units :
          (features[u].exists /\ PositiveObservations(applied[u]))
          => /\ features[u].rho = RhoOf(features[u])
             /\ RatLeq(features[u].rho, <<99, 100>>)
    /\ \A s \in Sessions :
          (qsess[s].ret.kind = "feature" /\ qsess[s].obs[1] > 0 /\ qsess[s].obs[2] > 0)
          => qsess[s].ret.feature.rho = RhoOf(qsess[s].ret.feature)

\* C12 witness: two positive observations are stored with lambda above mu, rho at the cap
C12_Witness ==
    \E u \in Units :
        /\ Len(applied[u]) = 2
        /\ PositiveObservations(applied[u])
        /\ features[u].exists
        /\ RatLess(features[u].mu_est, features[u].lambda_est)
        /\ features[u].rho = <<99, 100>>

\* the estimates of a unit as the transaction of session s has them stored, the
\* defaults for a unit never observed
StoredBefore(s, u) ==
    IF qsess[s].writes[u].kind # "none" THEN qsess[s].writes[u].row
    ELSE IF features[u].exists THEN features[u]
    ELSE [exists |-> FALSE, lambda_est |-> <<1, 1>>, mu_est |-> <<10, 1>>, rho |-> <<1, 10>>]

\* the step of session s is the successful return of an update_feature call
ReturnsFeature(s) ==
    /\ qsess[s].pc \in {"insert", "flush"}
    /\ qsess'[s].ret.kind = "feature"

\* alpha * observed + (1 - alpha) * old, alpha = 0.3
Smoothed(observed, old) ==
    RatAdd(RatMul(<<3, 10>>, <<observed, 1>>), RatMul(<<7, 10>>, old))

\* C13: update_feature(unit, a, s) returns a Feature with lambda' = alpha*a + (1-alpha)*lambda
\* and mu' = alpha*s + (1-alpha)*mu over the unit's stored estimates (the defaults 1.0
\* and 10.0 for a unit never observed), and rho' = min(lambda'/mu', 0.99).
C13_EwmaUpdate ==
    [][\A s \in Sessions :
          ReturnsFeature(s) =>
             LET u == qsess[s].unit
                 before == StoredBefore(s, u)
                 f == qsess'[s].ret.feature
             IN  /\ f.lambda_est = Smoothed(qsess[s].obs[1], before.lambda_est)
                 /\ f.mu_est = Smoothed(qsess[s].obs[2], before.mu_est)
                 /\ f.rho = RhoOf(f)
                 /\ get_feature(s, u)' = f]_vars

\* C13 witness: the first observation (20, 10) of a unit never observed returned
\* lambda = 6.7, mu = 10, rho = 0.67
C13_Witness ==
    \E s \in Sessions :
        /\ qsess[s].ret.kind = "feature"
        /\ qsess[s].obs = <<20, 10>>
        /\ ~features[qsess[s].unit].exists
        /\ qsess[s].ret.feature.lambda_est = <<67, 10>>
        /\ qsess[s].ret.feature.mu_est = <<10, 1>>
        /\ qsess[s].ret.feature.rho = <<67, 100>>

\* |a - b|
Dist(a, b) ==
    LET d == RatAdd(a, <<-b[1], b[2]>>)
    IN  <<Abs(d[1]), d[2]>>

\* an upper bound of 0.7^n, in millionths
RECURSIVE ShrinkBound(_)
ShrinkBound(n) == IF n = 0 THEN 1000000 ELSE (ShrinkBound(n - 1) * 7 + 9) \div 10

\* C14: an update_feature(unit, x, y) with x >= 0, y > 0 shrinks |lambda - x| and
\* |mu - y| by the factor 1 - alpha = 0.7 and never lets them grow; twenty such calls
\* bring both below a thousandth of what they were.
C14_EwmaConverges ==
    /\ [][\A s \in Sessions :
            (ReturnsFeature(s) /\ qsess[s].obs[1] >= 0 /\ qsess[s].obs[2] > 0) =>
               LET u == qsess[s].unit
                   before == StoredBefore(s, u)
                   f == qsess'[s].ret.feature
                   x == <<qsess[s].obs[1], 1>>
                   y == <<qsess[s].obs[2], 1>>
               IN  /\ Dist(f.lambda_est, x) = RatMul(<<7, 10>>, Dist(before.lambda_est, x))
                   /\ Dist(f.mu_est, y) = RatMul(<<7, 10>>, Dist(before.mu_est, y))
                   /\ RatLeq(Dist(f.lambda_est, x), Dist(before.lambda_est, x))
                   /\ RatLeq(Dist(f.mu_est, y), Dist(before.mu_est, y))]_vars
    /\ [](ShrinkBound(20) < 1000)

\* C14 witness: (20, 10) observed twice: |lambda - 20| went 19, 13.3, 9.31
C14_Witness ==
    \E u \in Units :
        /\ applied[u] = <<(<<20, 10>>), (<<20, 10>>)>>
        /\ features[u].exists
        /\ Dist(features[u].lambda_est, <<20, 1>>) = <<931, 100>>

\* C15: every update_feature call with an observed service_rate <= 0 fails with the
\* invalid-service-rate error: none returns a Feature, none is committed.
C15_NonPositiveServiceRateFails ==
    /\ \A s \in Sessions :
          (qsess[s].op = "update_feature" /\ qsess[s].pc = "idle" /\ qsess[s].obs[2] <= 0)
          => (qsess[s].error = "ValueError" /\ qsess[s].ret.kind # "feature")
    /\ \A u \in Units : \A i \in DOMAIN applied[u] : applied[u][i][2] > 0

LevelUnder(rho, low, high) ==
    IF RatLess(rho, low) THEN "permissive"
    ELSE IF RatLess(rho, high) THEN "require_approval"
    ELSE "read_only"

\* C17: get_protection_level(unit) returns the level of the unit's rho under the
\* thresholds the service was constructed with: permissive below low, require_approval
\* from low up to high, read_only from high on.
C17_LevelFollowsConfiguredThresholds ==
    \A s \in Sessions :
        qsess[s].ret.kind = "level"
        => qsess[s].ret.level = LevelUnder(qsess[s].ret.feature.rho,
                                           qsess[s].ret.threshold_low,
                                           qsess[s].ret.threshold_high)

\* C18: should_auto_relax is true only for rho below the relax threshold 0.5, which
\* is below the service's low threshold; so a unit it is true for is permissive
\* under the service's thresholds.
C18_RelaxBelowLow ==
    \A s \in Sessions :
        qsess[s].ret.kind = "relax"
        => /\ qsess[s].ret.relax =>
                 (qsess[s].ret.feature.exists /\ RatLess(qsess[s].ret.feature.rho, <<5, 10>>))
           /\ RatLess(<<5, 10>>, qsess[s].ret.threshold_low)
           /\ qsess[s].ret.relax =>
                 LevelUnder(qsess[s].ret.feature.rho, qsess[s].ret.threshold_low,
                            qsess[s].ret.threshold_high) = "permissive"

-----------------------------------------------------------------------------
(* The signing engine: C19, C20, under SpecSign *)

\* C19: verify_receipt of the token sign_receipt(c) returned succeeds and yields a
\* claim map equal to c on every key of c other than iat / exp, and sign_receipt
\* leaves the caller's map as it was.
C19_SignVerifyRoundTrip ==
    /\ signed.done => (signed.error = "none" /\ signed.map_after = signed.input)
    /\ (verified.done /\ verified.place = NoPlace /\ signed.expiry_hours = 0)
       => /\ verified.outcome = "ok"
          /\ \A k \in DOMAIN signed.input \ {"iat", "exp"} :
                k \in DOMAIN verified.claims /\ verified.claims[k] = signed.input[k]

\* C20: a token with one character changed, in the header, the payload or the
\* signature, fails verification with the tampered-signature error and with no other
\* outcome.
C20_TamperDetected ==
    (verified.done /\ verified.place # NoPlace)
    => verified.outcome = "InvalidSignatureError"

\* the token splits into three segments that decode, and its header parses
structurally_valid(token) ==
    /\ token.dots = 2
    /\ token.header.clean /\ token.payload.clean /\ token.signature.clean
    /\ token.header.content.json_ok

\* the signature segment holds the engine's MAC of the header and payload segments
mac_matches(e, token) ==
    token.signature.content
        = HMAC(e.secret, e.algorithm, SigningInput(token.header, token.payload))

\* C21: a correctly signed token whose exp lies in the past fails as expired; one
\* with no exp or exp in the future verifies; a token whose MAC does not match fails
\* with the tampered-signature error, expired or not; a structurally invalid token
\* fails as malformed; no failing token yields a claim map.
C21_VerificationOutcomes ==
    (verified.done /\ verified.verify_exp)
    => LET token == wire.token
           claims == token.payload.content.claims
           signed_ok == structurally_valid(token) /\ mac_matches(engine, token)
       IN  /\ (signed_ok /\ "exp" \in DOMAIN claims /\ claims["exp"].n < clock)
              => verified.outcome = "ExpiredSignatureError"
           /\ (signed_ok /\ ("exp" \notin DOMAIN claims \/ claims["exp"].n > clock))
              => verified.outcome = "ok"
           /\ (structurally_valid(token) /\ ~mac_matches(engine, token))
              => verified.outcome = "InvalidSignatureError"
           /\ ~structurally_valid(token) => verified.outcome = "DecodeError"
           /\ verified.outcome # "ok" => verified.claims = EmptyMap

\* C22: constructing a SigningService with an explicitly supplied secret of fewer
\* than 32 characters (0..31) fails with the weak-secret error; no constructed engine
\* works with a secret other than the one its caller supplied, or with one shorter
\* than 32 characters.
C22_WeakSecretRejected ==
    /\ (engine.arg.given /\ Len(engine.arg.text) < 32) => engine.error = "ValueError"
    /\ (engine.arg.given /\ engine.error = "none")
       => engine.secret = engine.arg.text /\ Len(engine.secret) >= 32
    /\ (signed.done /\ signed.error = "none" /\ engine.arg.given)
       => wire.token.signature.content.key = engine.arg.text

-----------------------------------------------------------------------------
(* The receipt ledger: C23, C24, C29, under Spec and SpecLedger *)

\* Receipt.is_signed: signature is not None and not empty
is_signed(receipt) == receipt.signature # "NULL" /\ receipt.signature # ""

\* C23: every persisted receipt, the POLICY_CHANGE receipts of set_rule / toggle_rule
\* included, carries a non-empty signature token (is_signed() holds for each).
C23_EveryReceiptSigned ==
    \A i \in DOMAIN receipts : is_signed(receipts[i])

\* C24: no operation of the services changes the decision, reason or signature of a
\* persisted receipt or removes it; the receipts table only grows, and what a policy
\* toggle appends are POLICY_CHANGE receipts.
C24_ReceiptsImmutable ==
    [][/\ Len(receipts') >= Len(receipts)
       /\ \A i \in DOMAIN receipts :
            /\ receipts'[i].decision = receipts[i].decision
            /\ receipts'[i].reason = receipts[i].reason
            /\ receipts'[i].signature = receipts[i].signature
       /\ \A i \in (Len(receipts) + 1) .. Len(receipts') :
            receipts'[i].decision = POLICY_CHANGE]_vars

\* C24 witness: with a receipt persisted, a later toggle has appended a second one, a
\* receipt has been signed and verified and an action evaluated
C24_Witness ==
    /\ Len(receipts) >= 2
    /\ verified.done /\ verified.outcome = "ok"
    /\ last.valid

-----------------------------------------------------------------------------
(* The load estimator: C25 - C27, C30, under SpecQueue, SpecShared, SpecQueueConc *)

\* C25: after any sequence of successful get_or_create_feature / update_feature
\* calls, whatever numbers they were given, every stored Feature has lambda_est >= 0
\* and mu_est > 0, hence rho >= 0.
C25_EstimatesInRange ==
    \A u \in Units :
        features[u].exists
        => /\ RatLeq(Int2Rat(0), features[u].lambda_est)
           /\ RatLess(Int2Rat(0), features[u].mu_est)
           /\ RatLeq(Int2Rat(0), features[u].rho)

\* lambda = 1.0, mu = 10.0, rho = 0.1
ConservativeDefaults ==
    [exists |-> TRUE, lambda_est |-> <<1, 1>>, mu_est |-> <<10, 1>>, rho |-> <<1, 10>>]

\* C26: get_protection_level on a unit with no stored feature does not fail, creates
\* the feature with the defaults (1.0, 10.0, 0.1) and returns permissive;
\* should_auto_relax on an untracked unit returns false and creates nothing; no
\* operation deletes a feature.
C26_LazyInitialisation ==
    [][\A s \in Sessions, u \in Units :
          /\ (qsess[s].pc = "insert" /\ qsess[s].op = "get_protection_level"
                /\ qsess[s].unit = u /\ qsess'[s] # qsess[s])
             => /\ qsess'[s].error = "none"
                /\ qsess'[s].ret.kind = "level"
                /\ qsess'[s].ret.level = "permissive"
                /\ qsess'[s].writes[u].kind = "insert"
                /\ qsess'[s].writes[u].row = ConservativeDefaults
          /\ (~features[u].exists /\ features'[u].exists /\ applied'[u] = <<>>)
             => features'[u] = ConservativeDefaults
          /\ (qsess'[s].op = "should_auto_relax" /\ qsess'[s].unit = u
                /\ qsess'[s] # qsess[s] /\ ~get_feature(s, u).exists)
             => /\ qsess'[s].ret.kind = "relax"
                /\ ~qsess'[s].ret.relax
                /\ qsess'[s].writes = qsess[s].writes
                /\ qsess'[s].pc = "idle"
                /\ features' = features
          /\ features[u].exists => features'[u].exists]_vars

\* C26 witness: get_protection_level created the feature of a unit that had none,
\* and the feature is stored
C26_Witness ==
    \E u \in Units :
        /\ features[u] = ConservativeDefaults
        /\ applied[u] = <<>>
        /\ qsess[Serial].ret.kind = "relax"
        /\ qsess[Serial].ret.unit = u
        /\ qsess[Serial].ret.relax

\* C27: a request that obtained the service through get_queueing_service(db) makes
\* all its feature reads and writes on the session db it passed, whatever other
\* requests do with sessions of their own.
C27_SessionIsolation ==
    \A call \in shared.ran : call[2] = call[1]

-----------------------------------------------------------------------------
(* Database initialisation: C28, under SpecSeed *)

\* C28: seed_sample_data run on a freshly created empty database completes without
\* error and leaves three sample receipts, three sample events and three sample
\* features committed; every sample Feature passes the Feature constructor's validation.
C28_SampleDataSeeded ==
    /\ (sample.ran /\ sample.fresh)
       => /\ sample.error = "none"
          /\ sample.receipts = 3 /\ sample.events = 3 /\ sample.features = 3
    /\ sample.ran => \A i \in DOMAIN SampleFeatures : feature_init_ok(SampleFeatures[i])

-----------------------------------------------------------------------------
(* The audit chain: C29, under SpecLedger *)

\* C29: after any sequential series of set_rule / toggle_rule calls (receipts created
\* by default) from the bootstrap state, the POLICY_CHANGE receipts of each key
\* alternate: the first has old_state OFF, each later one has old_state equal to the
\* previous one's new_state, every one has old_state # new_state, and the last one's
\* new_state is the rule's current state.
C29_AuditChain ==
    \A k \in RuleKey :
        LET rs == PolicyChanges(receipts, k)
        IN  /\ rs # <<>> => ~rs[1].meta.old_state
            /\ \A i \in 1 .. (Len(rs) - 1) : rs[i + 1].meta.old_state = rs[i].meta.new_state
            /\ \A i \in 1 .. Len(rs) : rs[i].meta.old_state # rs[i].meta.new_state
            /\ rs # <<>> => (rules[k].exists /\ is_enabled(rules[k]) = rs[Len(rs)].meta.new_state)

\* C29 witness: a rule was switched on and off again, each change with its receipt
C29_Witness ==
    \E k \in RuleKey :
        /\ Len(PolicyChanges(receipts, k)) = 2
        /\ PolicyChanges(receipts, k)[2].meta.old_state
        /\ rules[k].exists /\ ~is_enabled(rules[k])

-----------------------------------------------------------------------------
(* One Feature per unit: C30, under SpecQueueConc *)

\* C30: under any interleaving of get_or_create_feature / update_feature /
\* get_protection_level calls of concurrent sessions a unit has at most one stored
\* Feature, so the first matching row get_feature takes is the unit's only one.
C30_OneFeaturePerUnit ==
    \A u \in Units : dups[u] = <<>>

====
